---- MODULE Spec2Model ----
(***************************************************************************)
(* A model of rusty_skelform_macroquad's src/lib.rs: animate, draw_props   *)
(* and create_mesh, called by a host loop on an armature it owns.          *)
(*                                                                         *)
(* Numbers.  The f32 values of the code are exact rationals here, kept as  *)
(* integers: a bone's authored pos/rot/scale are whole numbers, rotations  *)
(* count quarter turns (so that rotating a vector is exact), and           *)
(* scale_factor counts quarters (the default 0.25 is 1), so that the       *)
(* values animate returns are in quarters of the authored unit.            *)
(* Option<T> is a sequence of length 0 (None) or 1 (Some).                 *)
(***************************************************************************)
EXTENDS Integers, Sequences, FiniteSets, TLC

VARIABLES armature, ret

vars == <<armature, ret>>

None == <<>>

Some(v) == <<v>>

Vec2(x, y) == [x |-> x, y |-> y]

Abs(n) == IF n < 0 THEN -n ELSE n

(***************************************************************************)
(* Bounds of the model.                                                    *)
(***************************************************************************)
MaxAnims == 2

MaxIdx == 2

MaxElapsed == 1

MaxFrame == 1

MaxTex == 2

MaxIndices == 2

(***************************************************************************)
(* The armatures the host may have loaded.  Three bones: a root, its       *)
(* child (a mesh, drawn below it), and a free bone the IK family aims at.   *)
(***************************************************************************)
Vertex(x, y) == [pos |-> Vec2(x, y), uv |-> Vec2(0, 0)]

MkBone(id, parent, pos, rot, scale, z, tex, styled, verts, inds) ==
    [id |-> id, parent_id |-> parent, pos |-> pos, rot |-> rot, scale |-> scale,
     zindex |-> z, tex_idx |-> tex, style_idxs |-> IF styled THEN <<0>> ELSE <<>>,
     vertices |-> verts, indices |-> inds]

Bones(tex1) ==
    << MkBone(0, -1, Vec2(1, 2), 1, Vec2(2, 1), 2, 0, TRUE, <<>>, <<>>),
       MkBone(1, 0, Vec2(3, 1), 1, Vec2(1, 3), 1, tex1, TRUE,
              <<Vertex(0, 0), Vertex(2, 0), Vertex(0, 2)>>, <<0, 1, 2>>),
       MkBone(2, -1, Vec2(-4, 5), 0, Vec2(1, 1), 0, 0, FALSE, <<>>, <<>>) >>

Keyframe(frame, bone, element, value) ==
    [frame |-> frame, bone_id |-> bone, element |-> element, value |-> value]

Animation(k) ==
    [fps |-> k,
     keyframes |-> << Keyframe(0, 1, "Rotation", k),
                      Keyframe(2, 1, "Rotation", k + 2),
                      Keyframe(0, 0, "PositionX", k),
                      Keyframe(2, 0, "PositionX", k + 4) >>]

Texture(ox, oy, w, h) == [offset |-> Vec2(ox, oy), size |-> Vec2(w, h)]

Style == [textures |-> <<Texture(0, 0, 2, 4), Texture(2, 0, 4, 2)>>]

IkFamily == [bone_ids |-> <<0, 1>>, target_id |-> 2]

Armatures ==
    { [bones |-> Bones(tex1),
       animations |-> [k \in 1..n |-> Animation(k)],
       ik_families |-> IF ik THEN <<IkFamily>> ELSE <<>>,
       styles |-> IF st THEN <<Style>> ELSE <<>>] :
      tex1 \in 0..MaxTex, n \in 0..MaxAnims, ik \in BOOLEAN, st \in BOOLEAN }

(***************************************************************************)
(* The rusty_skelform crate (a dependency, not part of this repository):   *)
(* get_frame_by_time, animate (the sampler), inheritance and               *)
(* inverse_kinematics, after sections 4.1, 4.2, 4.4 and 4.5 of the         *)
(* specification.                                                          *)
(***************************************************************************)
\* 4.1: frame = floor(elapsed_seconds * frame_rate * playback_speed)
get_frame_by_time(anim, elapsed, speed) == elapsed * anim.fps * speed

\* 4.1 / 3: an animation's length is its greatest keyframe frame + 1
AnimLength(anim) ==
    LET fs == { anim.keyframes[i].frame : i \in DOMAIN anim.keyframes }
    IN  IF fs = {} THEN 0 ELSE (CHOOSE f \in fs : \A g \in fs : g <= f) + 1

\* 4.1: wrap when looping, hold the last frame otherwise; length 0 gives 0
LoopFrame(anim, frame, should_loop) ==
    LET len == AnimLength(anim)
    IN  IF len = 0 THEN 0
        ELSE IF frame < len THEN frame
        ELSE IF should_loop THEN frame % len
        ELSE len - 1

\* 4.2: the value of (bone, element) at frame, or None without keyframes
SampleElement(anim, bone_id, element, frame) ==
    LET ks == { i \in DOMAIN anim.keyframes :
                    /\ anim.keyframes[i].bone_id = bone_id
                    /\ anim.keyframes[i].element = element }
        before == { i \in ks : anim.keyframes[i].frame <= frame }
        after == { i \in ks : anim.keyframes[i].frame >= frame }
        k0 == CHOOSE i \in before :
                  \A j \in before : anim.keyframes[j].frame <= anim.keyframes[i].frame
        k1 == CHOOSE i \in after :
                  \A j \in after : anim.keyframes[j].frame >= anim.keyframes[i].frame
    IN  IF ks = {} THEN None
        ELSE IF before = {} THEN Some(anim.keyframes[k1].value)
        ELSE IF after = {} THEN Some(anim.keyframes[k0].value)
        ELSE LET f0 == anim.keyframes[k0].frame
                 f1 == anim.keyframes[k1].frame
                 v0 == anim.keyframes[k0].value
                 v1 == anim.keyframes[k1].value
             IN  IF f0 = f1 THEN Some(v0)
                 ELSE Some(v0 + ((v1 - v0) * (frame - f0)) \div (f1 - f0))

Sampled(anim, bone, element, frame, authored) ==
    LET s == SampleElement(anim, bone.id, element, frame)
    IN  IF s = None THEN authored ELSE s[1]

\* rusty_skelform::animate: the bones of the armature posed at the frame
SamplePose(arm, animation_index, frame, should_loop) ==
    LET anim == arm.animations[animation_index + 1]
        f == LoopFrame(anim, frame, should_loop)
    IN  [i \in DOMAIN arm.bones |->
            LET b == arm.bones[i]
            IN  [b EXCEPT
                   !.pos = Vec2(Sampled(anim, b, "PositionX", f, b.pos.x),
                                Sampled(anim, b, "PositionY", f, b.pos.y)),
                   !.rot = Sampled(anim, b, "Rotation", f, b.rot),
                   !.scale = Vec2(Sampled(anim, b, "ScaleX", f, b.scale.x),
                                  Sampled(anim, b, "ScaleY", f, b.scale.y))]]

\* a vector turned by rot quarter turns
Rotate(v, rot) ==
    LET q == rot % 4
    IN  IF q = 0 THEN v
        ELSE IF q = 1 THEN Vec2(-v.y, v.x)
        ELSE IF q = 2 THEN Vec2(-v.x, -v.y)
        ELSE Vec2(v.y, -v.x)

\* 4.4: one bone composed with its already composed parent
ComposeBone(b, done, ik_rots) ==
    LET local_rot == IF b.id \in DOMAIN ik_rots THEN ik_rots[b.id] ELSE b.rot
    IN  IF b.parent_id = -1 THEN [b EXCEPT !.rot = local_rot]
        ELSE LET p == done[b.parent_id + 1]
                 r == Rotate(Vec2(b.pos.x * p.scale.x, b.pos.y * p.scale.y), p.rot)
             IN  [b EXCEPT !.rot = p.rot + local_rot,
                           !.scale = Vec2(p.scale.x * b.scale.x, p.scale.y * b.scale.y),
                           !.pos = Vec2(p.pos.x + r.x, p.pos.y + r.y)]

RECURSIVE ComposeFrom(_, _, _, _)
ComposeFrom(bones, done, i, ik_rots) ==
    IF i > Len(bones) THEN done
    ELSE ComposeFrom(bones, Append(done, ComposeBone(bones[i], done, ik_rots)),
                     i + 1, ik_rots)

\* rusty_skelform::inheritance
inheritance(bones, ik_rots) == ComposeFrom(bones, <<>>, 1, ik_rots)

\* the quarter turn nearest to the direction of (dx, dy)
Toward(dx, dy) ==
    IF Abs(dx) >= Abs(dy) THEN (IF dx >= 0 THEN 0 ELSE 2)
    ELSE (IF dy > 0 THEN 1 ELSE 3)

\* rusty_skelform::inverse_kinematics: bone id -> corrective rotation
inverse_kinematics(bones, families) ==
    LET ids == UNION { { families[f].bone_ids[j] : j \in DOMAIN families[f].bone_ids } :
                       f \in DOMAIN families }
        fam(id) == families[CHOOSE f \in DOMAIN families :
                       \E j \in DOMAIN families[f].bone_ids :
                           families[f].bone_ids[j] = id]
    IN  [id \in ids |->
            LET t == bones[fam(id).target_id + 1]
                b == bones[id + 1]
            IN  Toward(t.pos.x - b.pos.x, t.pos.y - b.pos.y)]

(***************************************************************************)
(* src/lib.rs.  A panic unwinds out of the call: every step below yields   *)
(* the panic it raised ("none" when it ran through).                       *)
(***************************************************************************)
NoPanic == "none"

UnwrapNone == "called Option::unwrap() on a None value"

AnimationOutOfBounds == "index out of bounds: new_armature.animations"

TextureOutOfBounds == "index out of bounds: armature.styles[0].textures"

SubtractOverflow == "attempt to subtract with overflow"

\* AnimOptions::default (last_anim_idx and last_anim_frame are never read)
DefaultOptions ==
    [speed |-> 1, pos_offset |-> Vec2(0, 0), scale_factor |-> 1, frame |-> None]

\* if options == None { options = Some(AnimOptions::default()) }
OptionsOrDefault(options) ==
    IF options = None THEN Some(DefaultOptions) ELSE options

\* a plausible slip: no default for the frame
NoDefaultFrame(time, options) == [panic |-> NoPanic, options |-> options]

\* if time == None && options.as_ref().unwrap().frame == None { frame = Some(0) }
DefaultFrame(time, options) ==
    IF time # None THEN [panic |-> NoPanic, options |-> options]
    ELSE IF options = None THEN [panic |-> UnwrapNone, options |-> options]
    ELSE IF options[1].frame = None
         THEN [panic |-> NoPanic,
               options |-> Some([options[1] EXCEPT !.frame = Some(0)])]
    ELSE [panic |-> NoPanic, options |-> options]

\* let mut new_armature = armature.clone(): the caller's and the call's own
CloneArmature(arm) == [armature |-> arm, new_armature |-> arm]

\* bone.pos.y = -bone.pos.y; bone.rot = -bone.rot; rotation kf.value = -kf.value
Negated(arm) ==
    [arm EXCEPT
       !.bones = [i \in DOMAIN arm.bones |->
                     [arm.bones[i] EXCEPT !.pos = Vec2(@.x, -@.y), !.rot = -@]],
       !.animations = [a \in DOMAIN arm.animations |->
                          [arm.animations[a] EXCEPT
                             !.keyframes = [k \in DOMAIN arm.animations[a].keyframes |->
                                 LET kf == arm.animations[a].keyframes[k]
                                 IN  IF kf.element = "Rotation"
                                     THEN [kf EXCEPT !.value = -@]
                                     ELSE kf]]]]

\* a plausible slip: the quirks fixed through the &mut borrow of the caller
FixQuirksInPlace(mem) ==
    [armature |-> Negated(mem.armature), new_armature |-> Negated(mem.armature)]

\* "fix Macroquad-specific quirks": on new_armature only
FixQuirks(mem) == [mem EXCEPT !.new_armature = Negated(@)]

\* armature.animations.len() != 0 && animation_index < armature.animations.len() - 1
\* (usize: 0 - 1 panics with overflow checks and wraps to usize::MAX without)
SampleGuard(len, animation_index) ==
    IF len = 0 THEN [underflow |-> FALSE, taken |-> FALSE]
    ELSE [underflow |-> len < 1,
          taken |-> IF len < 1 THEN TRUE ELSE animation_index < len - 1]

\* a plausible slip: the clock wins whenever a time is given
ResolveFrameClockFirst(options, time, anim) ==
    IF options = None THEN [panic |-> UnwrapNone, frame |-> 0, calls |-> <<>>]
    ELSE IF time # None
    THEN [panic |-> NoPanic,
          frame |-> get_frame_by_time(anim, time[1], options[1].speed),
          calls |-> <<[fn |-> "get_frame_by_time"]>>]
    ELSE IF options[1].frame = None
    THEN [panic |-> UnwrapNone, frame |-> 0, calls |-> <<>>]
    ELSE [panic |-> NoPanic, frame |-> options[1].frame[1], calls |-> <<>>]

\* frame = get_frame_by_time(anim, time.unwrap(), speed) when options.frame is
\* None, options.frame.unwrap() otherwise
ResolveFrame(options, time, anim) ==
    IF options = None THEN [panic |-> UnwrapNone, frame |-> 0, calls |-> <<>>]
    ELSE IF options[1].frame = None
    THEN IF time = None THEN [panic |-> UnwrapNone, frame |-> 0, calls |-> <<>>]
         ELSE [panic |-> NoPanic,
               frame |-> get_frame_by_time(anim, time[1], options[1].speed),
               calls |-> <<[fn |-> "get_frame_by_time"]>>]
    ELSE [panic |-> NoPanic, frame |-> options[1].frame[1], calls |-> <<>>]

\* the if of lines 164-173: the pose sampled, or the clone's bones as they are
SamplePhase(mem, animation_index, time, should_loop, options, overflow_checks) ==
    LET g == SampleGuard(Len(mem.armature.animations), animation_index)
        bones == mem.new_armature.bones
        skipped == [panic |-> NoPanic, sampled |-> FALSE, frame |-> 0,
                    props |-> bones, calls |-> <<>>]
    IN  IF g.underflow /\ overflow_checks THEN [skipped EXCEPT !.panic = SubtractOverflow]
        ELSE IF ~g.taken THEN skipped
        ELSE IF animation_index >= Len(mem.new_armature.animations)
        THEN [skipped EXCEPT !.panic = AnimationOutOfBounds]
        ELSE LET anim == mem.new_armature.animations[animation_index + 1]
                 f == ResolveFrame(options, time, anim)
             IN  IF f.panic # NoPanic
                 THEN [skipped EXCEPT !.panic = f.panic, !.calls = f.calls]
                 ELSE [panic |-> NoPanic, sampled |-> TRUE, frame |-> f.frame,
                       props |-> SamplePose(mem.new_armature, animation_index,
                                            f.frame, should_loop),
                       calls |-> Append(f.calls,
                                        [fn |-> "animate", index |-> animation_index,
                                         frame |-> f.frame])]

\* a plausible slip: the first pass run on props itself, not on a copy
ComposePoseInPlace(props, ik_families) ==
    LET composed == inheritance(props, <<>>)
        ik_rots == inverse_kinematics(composed, ik_families)
    IN  [og_props |-> composed, ik_rots |-> ik_rots,
         props |-> inheritance(composed, ik_rots),
         calls |-> << [fn |-> "inheritance", on |-> "props", ik_rots |-> <<>>],
                      [fn |-> "inverse_kinematics", on |-> "props"],
                      [fn |-> "inheritance", on |-> "props", ik_rots |-> ik_rots] >>]

\* og_props = props.clone(); inheritance(&mut og_props, HashMap::new());
\* ik_rots = inverse_kinematics(&og_props, ..); inheritance(&mut props, ik_rots)
ComposePose(props, ik_families) ==
    LET og_props == inheritance(props, <<>>)
        ik_rots == inverse_kinematics(og_props, ik_families)
    IN  [og_props |-> og_props, ik_rots |-> ik_rots,
         props |-> inheritance(props, ik_rots),
         calls |-> << [fn |-> "inheritance", on |-> "og_props", ik_rots |-> <<>>],
                      [fn |-> "inverse_kinematics", on |-> "og_props"],
                      [fn |-> "inheritance", on |-> "props", ik_rots |-> ik_rots] >>]

\* prop.scale *= scale_factor; prop.pos *= scale_factor; prop.pos += pos_offset
\* (scale_factor counts quarters, so the result is in quarters)
ApplyOptions(props, o) ==
    [i \in DOMAIN props |->
        [props[i] EXCEPT
           !.scale = Vec2(@.x * o.scale_factor, @.y * o.scale_factor),
           !.pos = Vec2(@.x * o.scale_factor + 4 * o.pos_offset.x,
                        @.y * o.scale_factor + 4 * o.pos_offset.y)]]

\* the u16 of macroquad's Mesh::indices
U16Range == 65536

\* *i as u16: a cast between integer types keeps the low 16 bits
IndexAsU16(i) == i % U16Range

\* create_mesh: the indices cast one by one, a vertex for each bone vertex.
\* The positions are bone.pos + (v.pos - size / 2) * scale / 2 (y: -v.pos.y),
\* here times 4; the texture handle and the unused lt/rb values are left out.
create_mesh(bone, bone_tex) ==
    [indices |-> [k \in DOMAIN bone.indices |-> IndexAsU16(bone.indices[k])],
     vertices |-> [k \in DOMAIN bone.vertices |->
        LET v == bone.vertices[k]
        IN  [pos |-> Vec2(4 * bone.pos.x + (2 * v.pos.x - bone_tex.size.x) * bone.scale.x,
                          4 * bone.pos.y + (-2 * v.pos.y - bone_tex.size.y) * bone.scale.y),
             uv |-> v.uv]]]

\* draw_texture_ex: the rectangle's corner (times 2), source, size and rotation
DrawRect(prop, prop_tex) ==
    [kind |-> "rect", id |-> prop.id, zindex |-> prop.zindex,
     x |-> 2 * prop.pos.x - prop_tex.size.x * prop.scale.x,
     y |-> 2 * prop.pos.y - prop_tex.size.y * prop.scale.y,
     source |-> prop_tex,
     dest_size |-> Vec2(prop_tex.size.x * prop.scale.x, prop_tex.size.y * prop.scale.y),
     rotation |-> prop.rot]

DrawMesh(prop, prop_tex) ==
    [kind |-> "mesh", id |-> prop.id, zindex |-> prop.zindex,
     mesh |-> create_mesh(prop, prop_tex)]

\* &armature.styles[0].textures[props[p].tex_idx as usize]
TextureOf(arm, prop) ==
    IF Len(arm.styles) = 0 THEN [panic |-> TextureOutOfBounds]
    ELSE IF prop.tex_idx >= Len(arm.styles[1].textures)
    THEN [panic |-> TextureOutOfBounds]
    ELSE [panic |-> NoPanic, tex |-> arm.styles[1].textures[prop.tex_idx + 1]]

\* the loop of draw_props from prop p on, draws being the calls issued so far
RECURSIVE DrawFrom(_, _, _, _)
DrawFrom(props, arm, p, draws) ==
    IF p > Len(props) THEN [panic |-> NoPanic, draws |-> draws]
    ELSE IF Len(props[p].style_idxs) = 0 THEN DrawFrom(props, arm, p + 1, draws)
    ELSE LET t == TextureOf(arm, props[p])
         IN  IF t.panic # NoPanic THEN [panic |-> t.panic, draws |-> draws]
             ELSE IF Len(props[p].vertices) > 0
             THEN DrawFrom(props, arm, p + 1, Append(draws, DrawMesh(props[p], t.tex)))
             ELSE DrawFrom(props, arm, p + 1, Append(draws, DrawRect(props[p], t.tex)))

\* draw_props: the draw calls issued, in order, and the panic that cut them short
draw_props(props, arm) == DrawFrom(props, arm, 1, <<>>)

\* animate.  A call that panics returns nothing: props and frame are then the
\* locals as the unwinding found them.
animate(arm, animation_index, time, should_loop, should_render, options, overflow_checks) ==
    LET o1 == OptionsOrDefault(options)
        d == DefaultFrame(time, o1)
        mem == FixQuirks(CloneArmature(arm))
        s == SamplePhase(mem, animation_index, time, should_loop, d.options,
                         overflow_checks)
        c == ComposePose(s.props, mem.armature.ik_families)
        props == ApplyOptions(c.props, d.options[1])
        drawn == IF should_render THEN draw_props(props, mem.new_armature)
                 ELSE [panic |-> NoPanic, draws |-> <<>>]
        unwound == [armature |-> mem.armature, panic |-> NoPanic, sampled |-> FALSE,
                    local |-> <<>>, og_props |-> <<>>, props |-> <<>>, frame |-> 0,
                    calls |-> <<>>, draws |-> <<>>]
    IN  IF d.panic # NoPanic THEN [unwound EXCEPT !.armature = arm, !.panic = d.panic]
        ELSE IF s.panic # NoPanic
        THEN [unwound EXCEPT !.panic = s.panic, !.calls = s.calls]
        ELSE IF d.options = None
        THEN [unwound EXCEPT !.panic = UnwrapNone, !.calls = s.calls \o c.calls]
        ELSE [armature |-> mem.armature, panic |-> drawn.panic, sampled |-> s.sampled,
              local |-> s.props, og_props |-> c.og_props, props |-> props,
              frame |-> s.frame,
              calls |-> s.calls \o c.calls \o <<[fn |-> "apply_options"]>>
                        \o (IF should_render THEN <<[fn |-> "draw_props"]>> ELSE <<>>),
              draws |-> drawn.draws]

(***************************************************************************)
(* The host's loop (examples/basic.rs): it loads an armature, and in each  *)
(* frame calls animate, draw_props (of props of its own or of those        *)
(* animate returned) or create_mesh, then awaits the next frame.  ret is   *)
(* the frame's last call: its arguments and what it gave.                  *)
(***************************************************************************)
Times == {None} \cup { Some(e) : e \in 0..MaxElapsed }

Frames == {None} \cup { Some(f) : f \in -1..MaxFrame }

Options ==
    {None} \cup { Some([speed |-> 2, pos_offset |-> Vec2(1, -1),
                        scale_factor |-> 2, frame |-> f]) : f \in Frames }

IndexValues == {0, 1, U16Range - 1, U16Range, U16Range + 1}

MeshBones ==
    { MkBone(0, -1, Vec2(1, 2), 0, Vec2(2, 2), 0, 0, TRUE,
             <<Vertex(0, 0), Vertex(2, 0), Vertex(0, 2)>>, inds) :
      inds \in UNION { [1..n -> IndexValues] : n \in 0..MaxIndices } }

Reverse(s) == [i \in DOMAIN s |-> s[Len(s) + 1 - i]]

Idle == [op |-> "idle"]

Init ==
    /\ armature \in Armatures
    /\ ret = Idle

Animate ==
    /\ ret = Idle
    /\ \E animation_index \in 0..MaxIdx, time \in Times, should_loop \in BOOLEAN,
          should_render \in BOOLEAN, options \in Options, overflow_checks \in BOOLEAN :
        LET r == animate(armature, animation_index, time, should_loop, should_render,
                         options, overflow_checks)
        IN  /\ armature' = r.armature
            /\ ret' = [op |-> "animate", before |-> armature,
                       animation_index |-> animation_index, time |-> time,
                       should_loop |-> should_loop, should_render |-> should_render,
                       options |-> options, out |-> r]

DrawProps ==
    /\ ret.op \in {"idle", "animate"}
    /\ \E props \in {armature.bones, Reverse(armature.bones)}
                    \cup (IF ret.op = "animate" /\ ret.out.panic = NoPanic
                          THEN {ret.out.props} ELSE {}) :
        /\ ret' = [op |-> "draw_props", props |-> props,
                   out |-> draw_props(props, armature)]
        /\ UNCHANGED armature

CreateMesh ==
    /\ ret = Idle
    /\ \E bone \in MeshBones :
        /\ ret' = [op |-> "create_mesh", bone |-> bone,
                   out |-> create_mesh(bone, Style.textures[1])]
        /\ UNCHANGED armature

\* next_frame().await
NextFrame ==
    /\ ret # Idle
    /\ ret' = Idle
    /\ UNCHANGED armature

Next == Animate \/ DrawProps \/ CreateMesh \/ NextFrame

Spec == Init /\ [][Next]_vars

(***************************************************************************)
(* Properties.                                                             *)
(***************************************************************************)
Called == ret.op = "animate"

Returned == Called /\ ret.out.panic = NoPanic

\* the options animate works with after line 135
Effective(options) == OptionsOrDefault(options)[1]

CallsOf(fns) == SelectSeq(ret.out.calls, LAMBDA c : c.fn \in fns)

\* C1: a call to animate leaves the caller's armature (bones, keyframes, IK
\* families, styles) as it was before the call, whatever the arguments and
\* whether or not the call returns.
C1_ArmatureUnchanged == Called => armature = ret.before

\* C1's case: a call that sampled and rendered a pose unlike the authored bones
C1_Witness ==
    /\ Called /\ ret.out.sampled /\ ret.should_render
    /\ ret.out.local # ret.before.bones

\* C2 as claimed: with animation_index >= animations.len() animate neither
\* indexes the animation list out of bounds nor underflows, skips sampling, and
\* returns frame 0 with the composed, scaled pose of the unanimated bones.
C2_OutOfRangeIndexReturnsPose ==
    (Called /\ ret.animation_index >= Len(ret.before.animations)) =>
        LET bones == Negated(ret.before).bones
            rots == inverse_kinematics(inheritance(bones, <<>>), ret.before.ik_families)
        IN  /\ ret.out.panic = NoPanic
            /\ ~ret.out.sampled
            /\ CallsOf({"animate", "get_frame_by_time"}) = <<>>
            /\ ret.out.frame = 0
            /\ ret.out.props = ApplyOptions(inheritance(bones, rots),
                                            Effective(ret.options))

\* the part of C2 about the index: no out-of-bounds index into the animation
\* list, no underflow of len() - 1, no sampling, frame 0, and the pose of the
\* unanimated bones computed
AnimationIndexNeverOutOfBounds ==
    (Called /\ ret.animation_index >= Len(ret.before.animations)) =>
        LET bones == Negated(ret.before).bones
            rots == inverse_kinematics(inheritance(bones, <<>>), ret.before.ik_families)
        IN  /\ ret.out.panic \in {NoPanic, TextureOutOfBounds}
            /\ ~ret.out.sampled
            /\ ret.out.frame = 0
            /\ ret.out.props = ApplyOptions(inheritance(bones, rots),
                                            Effective(ret.options))

\* C3 as claimed: with animation_index in 0 .. animations.len() - 1, animate
\* samples animations[animation_index].
C3_InRangeIndexIsSampled ==
    (Called /\ ret.animation_index < Len(ret.before.animations)) =>
        /\ ret.out.sampled
        /\ \E i \in DOMAIN ret.out.calls :
              /\ ret.out.calls[i].fn = "animate"
              /\ ret.out.calls[i].index = ret.animation_index

\* C4: when animate samples and options.frame is Some(f), the sampler is called
\* once, with frame f, the frame animate yields is f, and get_frame_by_time is
\* not called, whatever time and speed are.
C4_ExplicitFrameVerbatim ==
    (Called /\ ret.out.sampled /\ ret.options # None /\ Effective(ret.options).frame # None) =>
        LET f == Effective(ret.options).frame[1]
        IN  /\ ret.out.frame = f
            /\ CallsOf({"animate"}) =
                   <<[fn |-> "animate", index |-> ret.animation_index, frame |-> f]>>
            /\ CallsOf({"get_frame_by_time"}) = <<>>

\* C4's case: a frame is given together with a clock that would give another
C4_Witness ==
    /\ Returned /\ ret.out.sampled /\ ret.options # None /\ ret.time # None
    /\ Effective(ret.options).frame # None
    /\ get_frame_by_time(ret.before.animations[ret.animation_index + 1],
                         ret.time[1], Effective(ret.options).speed)
           # Effective(ret.options).frame[1]

\* C5 as claimed: the frame animate resolves and returns is >= 0 for every input.
C5_FrameNonNegative == Called => ret.out.frame >= 0

\* the call of draw_props a state holds: its props, armature and outcome
DrawCalls ==
    IF ret.op = "draw_props"
    THEN {[props |-> ret.props, arm |-> armature, out |-> ret.out]}
    ELSE IF Called /\ ret.should_render /\ "draw_props" \in { ret.out.calls[i].fn : i \in DOMAIN ret.out.calls }
    THEN {[props |-> ret.out.props, arm |-> Negated(ret.before),
           out |-> [panic |-> ret.out.panic, draws |-> ret.out.draws]]}
    ELSE {}

Resolvable(arm, prop) ==
    /\ Len(arm.styles) > 0
    /\ prop.tex_idx < Len(arm.styles[1].textures)

\* C6 as claimed: draw_props never panics; a bone whose texture cannot be
\* resolved (no style, or tex_idx outside the style's textures) gives no draw
\* call, and the other bones with a style are all drawn.
C6_UnresolvableBoneSkipped ==
    \A d \in DrawCalls :
        /\ d.out.panic = NoPanic
        /\ [i \in DOMAIN d.out.draws |-> d.out.draws[i].id]
             = [i \in DOMAIN SelectSeq(d.props, LAMBDA b :
                        Len(b.style_idxs) > 0 /\ Resolvable(d.arm, b)) |->
                   SelectSeq(d.props, LAMBDA b :
                        Len(b.style_idxs) > 0 /\ Resolvable(d.arm, b))[i].id]

PlaceOf(props, id) == CHOOSE i \in DOMAIN props : props[i].id = id

\* C7 as claimed: the draw calls are issued in ascending z-index order, bones of
\* equal z-index in the order they have in the props.
C7_DrawnInZOrder ==
    \A d \in DrawCalls :
        \A i, j \in DOMAIN d.out.draws :
            i < j =>
                /\ d.out.draws[i].zindex <= d.out.draws[j].zindex
                /\ d.out.draws[i].zindex = d.out.draws[j].zindex =>
                       PlaceOf(d.props, d.out.draws[i].id)
                           < PlaceOf(d.props, d.out.draws[j].id)

\* C8 as claimed: the mesh's index buffer has the length of bone.indices and
\* its k-th index has the value of bone.indices[k].
C8_IndicesUnchanged ==
    ret.op = "create_mesh" =>
        /\ Len(ret.out.indices) = Len(ret.bone.indices)
        /\ \A k \in DOMAIN ret.bone.indices : ret.out.indices[k] = ret.bone.indices[k]

\* C9: every call of animate composes a copy of the sampled local pose with an
\* empty rotation map, solves IK on that copy (leaving it as composed), composes
\* the sampled local pose itself with the solver's map, then applies
\* scale_factor and pos_offset, each once and in this order; the props it
\* yields and draws are the local pose composed once, never the pre-IK copy.
C9_TwoPassOrder ==
    Called =>
        LET local == ret.out.local
            og == inheritance(local, <<>>)
            rots == inverse_kinematics(og, ret.before.ik_families)
            props == ApplyOptions(inheritance(local, rots), Effective(ret.options))
        IN  /\ CallsOf({"inheritance", "inverse_kinematics", "apply_options"}) =
                  << [fn |-> "inheritance", on |-> "og_props", ik_rots |-> <<>>],
                     [fn |-> "inverse_kinematics", on |-> "og_props"],
                     [fn |-> "inheritance", on |-> "props", ik_rots |-> rots],
                     [fn |-> "apply_options"] >>
            /\ ret.out.og_props = og
            /\ ret.out.props = props
            /\ ret.out.draws = IF ret.should_render
                               THEN draw_props(props, Negated(ret.before)).draws
                               ELSE <<>>

\* C9's case: a sampled pose with an IK family, where composing twice, or
\* yielding the pre-IK copy, would show
C9_Witness ==
    /\ Returned /\ ret.out.sampled /\ ret.should_render
    /\ ret.before.ik_families # <<>>
    /\ ret.out.props # ApplyOptions(ret.out.og_props, Effective(ret.options))
    /\ inheritance(ret.out.og_props, <<>>) # ret.out.og_props

\* C10: animate never unwraps an absent value: options is Some wherever it is
\* unwrapped, the clock is read only when time is Some, and with neither a time
\* nor a frame the frame is 0.
C10_NoUnwrapOfNone ==
    Called =>
        /\ ret.out.panic # UnwrapNone
        /\ CallsOf({"get_frame_by_time"}) # <<>> => ret.time # None
        /\ (ret.time = None /\ Effective(ret.options).frame = None) => ret.out.frame = 0

\* C10's case: neither a time nor options, and an animation sampled
C10_Witness ==
    /\ Returned /\ ret.out.sampled
    /\ ret.time = None /\ ret.options = None

====
